---- MODULE Spec2Model ----
(***************************************************************************)
(* Model of pkg/cmd/delete_formula.go: the "rit delete formula" command.   *)
(* A directory tree is a prefix-closed set of paths (sequences of entry    *)
(* names) below its root <<>>; a directory may also hold a stray           *)
(* non-directory entry.  The command removes a formula from the selected   *)
(* workspace tree and from the local mirror tree (<ritchieHome>/repos/     *)
(* local), then rewrites <ritchieHome>/repos/local/tree.json.              *)
(***************************************************************************)
EXTENDS Integers, Sequences, FiniteSets, TLC

VARIABLES
    wsTree,      \* the workspace root selected for the operation (wspace.Dir)
    localWs,     \* the mirror root <ritchieHome>/repos/local (ritchieLocalWorkspace)
    treeJson,    \* content of <ritchieHome>/repos/local/tree.json
    pc,          \* position of the running handler
    mode,        \* which runner RunFuncE picked: "prompt" or "stdin"
    groups,      \* the command path of the operation
    err,         \* value returned by the handler ("pending" while it runs)
    printed,     \* prompt.Success has printed the success message
    log,         \* steps the handler executed so far, in order
    failed,      \* steps of this operation in which a call returned an error
    pre,         \* both trees and the index as they were when the handler started
    prompts,     \* the d.inList.List calls of this run: options offered, name selected
    answer       \* what d.inBool.Bool returned in this run, NoAnswer before it is asked

vars == <<wsTree, localWs, treeJson, pc, mode, groups, err, printed, log, failed, pre,
          prompts, answer>>

(***************************************************************************)
(* Bounds of the model.                                                    *)
(***************************************************************************)
Names == {"a", "b"}          \* directory entry names
MaxDepth == 3                \* longest command path
MaxDirs == 4                 \* directories below the two roots, together
MaxFiles == 1                \* directories below the roots holding stray files, together

(***************************************************************************)
(* Error values.                                                           *)
(***************************************************************************)
Nil == "nil"
Pending == "pending"
ErrNotExist == "no such file or directory"
ErrPermission == "permission denied"
ErrCollaborator == "collaborator error"
ErrCouldNotFindFormula == "Could not find formula"

(***************************************************************************)
(* Paths and trees.                                                        *)
(***************************************************************************)
Root == <<>>

IsPrefix(p, q) == Len(p) <= Len(q) /\ SubSeq(q, 1, Len(p)) = p

Parent(p) == SubSeq(p, 1, Len(p) - 1)

RECURSIVE DirSets(_)
DirSets(n) ==
    IF n = 0 THEN {{Root}}
    ELSE LET S == DirSets(n - 1)
         IN  S \cup UNION {{D \cup {Append(p, x)} :
                               p \in {q \in D : Len(q) < MaxDepth}, x \in Names} : D \in S}

FileSets(D) == {F \in SUBSET (D \ {Root}) : Cardinality(F) <= MaxFiles}

\* filepath.Join(workspace, name): an empty element is ignored.
Join(workspace, name) == IF name = "" THEN workspace ELSE Append(workspace, name)

RECURSIVE JoinAll(_, _)
JoinAll(workspace, names) ==
    IF names = <<>> THEN workspace
    ELSE JoinAll(Join(workspace, Head(names)), Tail(names))

Exists(t, p) == p \in t.dirs

SubDirs(t, p) == {d \in t.dirs : Len(d) = Len(p) + 1 /\ IsPrefix(p, d)}

(***************************************************************************)
(* Injected I/O faults: one call on one path may be refused.               *)
(***************************************************************************)
NoFault == [op |-> "none", path |-> Root]

Faults(t) == {NoFault} \cup [op : {"RemoveAll", "ReadDir"}, path : t.dirs]

\* ioutil.ReadDir(workspace): the entries of the directory, or an error.
ReadDir(t, workspace, fault) ==
    IF ~Exists(t, workspace) THEN [files |-> {}, err |-> ErrNotExist]
    ELSE IF fault.op = "ReadDir" /\ fault.path = workspace
    THEN [files |-> {}, err |-> ErrPermission]
    ELSE [files |-> {[name |-> d[Len(d)], isDir |-> TRUE] : d \in SubDirs(t, workspace)}
                      \cup (IF workspace \in t.files
                            THEN {[name |-> "file", isDir |-> FALSE]} ELSE {}),
          err |-> Nil]

\* os.RemoveAll(workspace): removes the path and everything beneath it; a path
\* that does not exist is not an error.  When a directory below the path cannot
\* be unlinked, everything else is removed and the error is returned.
RemoveAll(t, workspace, fault) ==
    IF ~Exists(t, workspace) THEN [fs |-> t, err |-> Nil]
    ELSE IF fault.op = "RemoveAll" /\ Exists(t, fault.path) /\ IsPrefix(workspace, fault.path)
    THEN [fs |-> [dirs  |-> {d \in t.dirs : IsPrefix(workspace, d) => IsPrefix(d, fault.path)},
                  files |-> {d \in t.files : ~IsPrefix(workspace, d)}],
          err |-> ErrPermission]
    ELSE [fs |-> [dirs  |-> {d \in t.dirs : ~IsPrefix(workspace, d)},
                  files |-> {d \in t.files : ~IsPrefix(workspace, d)}],
          err |-> Nil]

\* Faulty variant: every directory passes the prune check.
canDeleteAlways(t, workspace, fault) ==
    LET r == ReadDir(t, workspace, fault)
    IN  IF r.err # Nil THEN [ok |-> FALSE, err |-> r.err]
        ELSE [ok |-> TRUE, err |-> Nil]

\* Faulty variant: any remaining entry, a stray file too, blocks the prune.
canDeleteEmptyOnly(t, workspace, fault) ==
    LET r == ReadDir(t, workspace, fault)
    IN  IF r.err # Nil THEN [ok |-> FALSE, err |-> r.err]
        ELSE [ok |-> r.files = {}, err |-> Nil]

canDelete(t, workspace, fault) ==
    LET r == ReadDir(t, workspace, fault)
    IN  IF r.err # Nil THEN [ok |-> FALSE, err |-> r.err]
        ELSE [ok |-> \A file \in r.files : ~file.isDir, err |-> Nil]

\* Faulty variant: the index == 0 return is missing, so the root is prune-checked too.
RECURSIVE deleteFormulaPruneRoot(_, _, _, _, _)
deleteFormulaPruneRoot(t, workspace, grps, index, fault) ==
    IF index = Len(grps) THEN RemoveAll(t, workspace, fault)
    ELSE LET newWorkspace == Join(workspace, grps[index + 1])
             r == deleteFormulaPruneRoot(t, newWorkspace, grps, index + 1, fault)
         IN  IF r.err # Nil THEN r
             ELSE LET c == canDelete(r.fs, workspace, fault)
                  IN  IF c.err # Nil THEN [fs |-> r.fs, err |-> c.err]
                      ELSE IF c.ok THEN RemoveAll(r.fs, workspace, fault)
                      ELSE [fs |-> r.fs, err |-> Nil]

\* Faulty variant: the unwind stops one level early (index <= 1 instead of index == 0).
RECURSIVE deleteFormulaStopEarly(_, _, _, _, _)
deleteFormulaStopEarly(t, workspace, grps, index, fault) ==
    IF index = Len(grps) THEN RemoveAll(t, workspace, fault)
    ELSE LET newWorkspace == Join(workspace, grps[index + 1])
             r == deleteFormulaStopEarly(t, newWorkspace, grps, index + 1, fault)
         IN  IF r.err # Nil THEN r
             ELSE IF index <= 1 THEN r
             ELSE LET c == canDelete(r.fs, workspace, fault)
                  IN  IF c.err # Nil THEN [fs |-> r.fs, err |-> c.err]
                      ELSE IF c.ok THEN RemoveAll(r.fs, workspace, fault)
                      ELSE [fs |-> r.fs, err |-> Nil]

\* Faulty variant: a failing step puts back what the call had removed.
RECURSIVE deleteFormulaRollsBack(_, _, _, _, _)
deleteFormulaRollsBack(t, workspace, grps, index, fault) ==
    IF index = Len(grps)
    THEN LET r == RemoveAll(t, workspace, fault)
         IN  IF r.err # Nil THEN [fs |-> t, err |-> r.err] ELSE r
    ELSE LET newWorkspace == Join(workspace, grps[index + 1])
             r == deleteFormulaRollsBack(t, newWorkspace, grps, index + 1, fault)
         IN  IF r.err # Nil THEN r
             ELSE IF index = 0 THEN r
             ELSE LET c == canDelete(r.fs, workspace, fault)
                      d == RemoveAll(r.fs, workspace, fault)
                  IN  IF c.err # Nil THEN [fs |-> t, err |-> c.err]
                      ELSE IF c.ok THEN (IF d.err # Nil THEN [fs |-> t, err |-> d.err] ELSE d)
                      ELSE [fs |-> r.fs, err |-> Nil]

RECURSIVE deleteFormula(_, _, _, _, _)
deleteFormula(t, workspace, grps, index, fault) ==
    IF index = Len(grps) THEN RemoveAll(t, workspace, fault)
    ELSE LET newWorkspace == Join(workspace, grps[index + 1])
             r == deleteFormula(t, newWorkspace, grps, index + 1, fault)
         IN  IF r.err # Nil THEN r
             ELSE IF index = 0 THEN r
             ELSE LET c == canDelete(r.fs, workspace, fault)
                  IN  IF c.err # Nil THEN [fs |-> r.fs, err |-> c.err]
                      ELSE IF c.ok THEN RemoveAll(r.fs, workspace, fault)
                      ELSE [fs |-> r.fs, err |-> Nil]

(***************************************************************************)
(* Collaborators: directory lister, selector, tree generator.              *)
(***************************************************************************)
docsDir == "docs"

\* stream.DirLister.List(dir, false): the names of the sub-directories.
List(t, dir, fault) ==
    LET r == ReadDir(t, dir, fault)
    IN  IF r.err # Nil THEN [dirs |-> {}, err |-> r.err]
        ELSE [dirs |-> {f.name : f \in {e \in r.files : e.isDir}}, err |-> Nil]

\* A listing with no directory to descend into is a formula.
isFormula(dirs) == dirs = {}

\* formula.TreeGenerator.Generate(workspace): the command paths of the tree.
Generate(t, fails) ==
    IF fails \/ ~Exists(t, Root) THEN [tree |-> {}, err |-> ErrCollaborator]
    ELSE [tree |-> t.dirs \ {Root}, err |-> Nil]

\* json.MarshalIndent(localTree, "", "\t"): the document, or no bytes and an error.
NoBytes == [version |-> "", commands |-> {}]

MarshalIndent(localTree, fails) ==
    IF fails THEN [json |-> NoBytes, err |-> ErrCollaborator]
    ELSE [json |-> [version |-> "v2", commands |-> localTree], err |-> Nil]

Absent == [version |-> "absent", commands |-> {}]

\* ioutil.WriteFile(<ritchieHome>/repos/local/tree.json, jsonString, os.ModePerm)
WriteFile(t, old, jsonString, fails) ==
    IF ~Exists(t, Root) THEN [file |-> old, err |-> ErrNotExist]
    ELSE IF fails THEN [file |-> old, err |-> ErrPermission]
    ELSE [file |-> jsonString, err |-> Nil]

\* The selector answers are consumed one per prompt; an answer that is not one
\* of the options is the selector's error.
NoSelection == ""

\* d.inBool.Bool has not been called.
NoAnswer == "none"

\* Faulty variant: the reserved docs entry stays among the options.
RECURSIVE readFormulasKeepsDocs(_, _, _, _)
readFormulasKeepsDocs(t, dir, answers, fault) ==
    LET l == List(t, dir, fault)
        dirs == l.dirs
    IN  IF l.err # Nil THEN [groups |-> <<>>, err |-> l.err, prompts |-> <<>>]
        ELSE IF isFormula(dirs) THEN [groups |-> <<>>, err |-> Nil, prompts |-> <<>>]
        ELSE IF answers = <<>> \/ Head(answers) \notin dirs
        THEN [groups |-> <<>>, err |-> ErrCollaborator,
              prompts |-> <<[options |-> dirs, selected |-> NoSelection]>>]
        ELSE LET selected == Head(answers)
                 aux == readFormulasKeepsDocs(t, Join(dir, selected), Tail(answers), fault)
                 asked == <<[options |-> dirs, selected |-> selected]>> \o aux.prompts
             IN  IF aux.err # Nil THEN [groups |-> <<>>, err |-> aux.err, prompts |-> asked]
                 ELSE [groups |-> <<selected>> \o aux.groups, err |-> Nil, prompts |-> asked]

RECURSIVE readFormulas(_, _, _, _)
readFormulas(t, dir, answers, fault) ==
    LET l == List(t, dir, fault)
        dirs == l.dirs \ {docsDir}
    IN  IF l.err # Nil THEN [groups |-> <<>>, err |-> l.err, prompts |-> <<>>]
        ELSE IF isFormula(dirs) THEN [groups |-> <<>>, err |-> Nil, prompts |-> <<>>]
        ELSE IF answers = <<>> \/ Head(answers) \notin dirs
        THEN [groups |-> <<>>, err |-> ErrCollaborator,
              prompts |-> <<[options |-> dirs, selected |-> NoSelection]>>]
        ELSE LET selected == Head(answers)
                 aux == readFormulas(t, Join(dir, selected), Tail(answers), fault)
                 asked == <<[options |-> dirs, selected |-> selected]>> \o aux.prompts
             IN  IF aux.err # Nil THEN [groups |-> <<>>, err |-> aux.err, prompts |-> asked]
                 ELSE [groups |-> <<selected>> \o aux.groups, err |-> Nil, prompts |-> asked]

recriateTreeJson(t, old, genFails, marshalFails, writeFails) ==
    LET g == Generate(t, genFails)
        m == MarshalIndent(g.tree, marshalFails)
        w == WriteFile(t, old, m.json, writeFails)
    IN  IF g.err # Nil
        THEN [file |-> old, err |-> g.err, steps |-> <<"generate">>, failed |-> {"generate"}]
        ELSE [file   |-> w.file,
              err    |-> w.err,
              steps  |-> <<"generate", "marshal", "write">>,
              failed |-> (IF m.err # Nil THEN {"marshal"} ELSE {})
                         \cup (IF w.err # Nil THEN {"write"} ELSE {})]

(***************************************************************************)
(* Initial states: two independent trees and an index that matches the     *)
(* mirror; no handler is running.                                          *)
(***************************************************************************)
Init ==
    /\ \E W \in DirSets(MaxDirs), L \in DirSets(MaxDirs) :
          /\ Cardinality(W) + Cardinality(L) - 2 <= MaxDirs
          /\ \E FW \in FileSets(W), FL \in FileSets(L) :
                /\ Cardinality(FW) + Cardinality(FL) <= MaxFiles
                /\ wsTree = [dirs |-> W, files |-> FW]
                /\ localWs = [dirs |-> L, files |-> FL]
    /\ treeJson = MarshalIndent(Generate(localWs, FALSE).tree, FALSE).json
    /\ pc = "idle"
    /\ mode = "none"
    /\ groups = <<>>
    /\ err = Nil
    /\ printed = FALSE
    /\ log = <<>>
    /\ failed = {}
    /\ pre = [ws |-> wsTree, local |-> localWs, treeJson |-> treeJson]
    /\ prompts = <<>>
    /\ answer = NoAnswer

Idle == pc = "idle"

\* The handler has returned; the command is constructed anew for the next run.
NewDeleteFormulaCmd ==
    /\ pc = "done"
    /\ pc' = "idle"
    /\ mode' = "none"
    /\ groups' = <<>>
    /\ err' = Nil
    /\ printed' = FALSE
    /\ log' = <<>>
    /\ failed' = {}
    /\ pre' = [ws |-> wsTree, local |-> localWs, treeJson |-> treeJson]
    /\ prompts' = <<>>
    /\ answer' = NoAnswer
    /\ UNCHANGED <<wsTree, localWs, treeJson>>

\* Paths a batch request may carry: deleteFormulaStdin.Groups is not validated.
RECURSIVE SeqsUpTo(_, _)
SeqsUpTo(S, n) ==
    IF n = 0 THEN {<<>>}
    ELSE LET P == SeqsUpTo(S, n - 1)
         IN  P \cup {Append(q, x) : q \in {r \in P : Len(r) = n - 1}, x \in S}

StdinGroups == SeqsUpTo(Names, MaxDepth) \cup SeqsUpTo(Names \cup {""}, MaxDepth - 1)

Answers == SeqsUpTo(Names, MaxDepth)

(***************************************************************************)
(* runPrompt, one action per call it makes.                                *)
(***************************************************************************)
\* d.workspace.List()
RunPromptList ==
    /\ Idle
    /\ mode' = "prompt"
    /\ groups' = <<>>
    /\ printed' = FALSE
    /\ log' = <<"list">>
    /\ \E e \in {Nil, ErrCollaborator} :
          /\ err' = IF e = Nil THEN Pending ELSE e
          /\ pc' = IF e = Nil THEN "input" ELSE "done"
          /\ failed' = IF e = Nil THEN {} ELSE {"list"}
    /\ UNCHANGED <<wsTree, localWs, treeJson, pre, prompts, answer>>

\* FormulaWorkspaceInput(workspaces, d.inList, d.inText)
RunPromptInput ==
    /\ pc = "input"
    /\ log' = Append(log, "input")
    /\ \E r \in {"error", "default", "other"} :
          /\ err' = IF r = "error" THEN ErrCollaborator ELSE Pending
          /\ pc' = CASE r = "error" -> "done"
                     [] r = "default" -> "readFormulas"
                     [] r = "other" -> "validate"
          /\ failed' = IF r = "error" THEN failed \cup {"input"} ELSE failed
    /\ UNCHANGED <<wsTree, localWs, treeJson, mode, groups, printed, pre, prompts, answer>>

\* d.workspace.Validate(wspace)
RunPromptValidate ==
    /\ pc = "validate"
    /\ log' = Append(log, "validate")
    /\ \E e \in {Nil, ErrCollaborator} :
          /\ err' = IF e = Nil THEN Pending ELSE e
          /\ pc' = IF e = Nil THEN "add" ELSE "done"
          /\ failed' = IF e = Nil THEN failed ELSE failed \cup {"validate"}
    /\ UNCHANGED <<wsTree, localWs, treeJson, mode, groups, printed, pre, prompts, answer>>

\* d.workspace.Add(wspace)
RunPromptAdd ==
    /\ pc = "add"
    /\ log' = Append(log, "add")
    /\ \E e \in {Nil, ErrCollaborator} :
          /\ err' = IF e = Nil THEN Pending ELSE e
          /\ pc' = IF e = Nil THEN "readFormulas" ELSE "done"
          /\ failed' = IF e = Nil THEN failed ELSE failed \cup {"add"}
    /\ UNCHANGED <<wsTree, localWs, treeJson, mode, groups, printed, pre, prompts, answer>>

\* Faulty variant: an empty resolution is not reported and goes on to confirmation.
RunPromptReadFormulasNoNilCheck ==
    /\ pc = "readFormulas"
    /\ log' = Append(log, "readFormulas")
    /\ \E answers \in Answers, fault \in Faults(wsTree) :
          LET r == readFormulas(wsTree, Root, answers, fault)
          IN  /\ groups' = r.groups
              /\ err' = IF r.err # Nil THEN r.err ELSE Pending
              /\ pc' = IF r.err # Nil THEN "done" ELSE "confirm"
              /\ failed' = IF r.err # Nil THEN failed \cup {"readFormulas"} ELSE failed
              /\ prompts' = r.prompts
    /\ UNCHANGED <<wsTree, localWs, treeJson, mode, printed, pre, answer>>

\* d.readFormulas(wspace.Dir) and the groups == nil test
RunPromptReadFormulas ==
    /\ pc = "readFormulas"
    /\ log' = Append(log, "readFormulas")
    /\ \E answers \in Answers, fault \in Faults(wsTree) :
          LET r == readFormulas(wsTree, Root, answers, fault)
          IN  /\ groups' = r.groups
              /\ err' = IF r.err # Nil THEN r.err
                        ELSE IF r.groups = <<>> THEN ErrCouldNotFindFormula
                        ELSE Pending
              /\ pc' = IF r.err # Nil \/ r.groups = <<>> THEN "done" ELSE "confirm"
              /\ failed' = IF r.err # Nil THEN failed \cup {"readFormulas"} ELSE failed
              /\ prompts' = r.prompts
    /\ UNCHANGED <<wsTree, localWs, treeJson, mode, printed, pre, answer>>

\* Faulty variant: the deletion goes ahead whatever the answer was.
RunPromptConfirmIgnoresAnswer ==
    /\ pc = "confirm"
    /\ log' = Append(log, "confirm")
    /\ \E r \in {"error", "no", "yes"} :
          /\ answer' = r
          /\ err' = CASE r = "error" -> ErrCollaborator
                      [] r = "no" -> Pending
                      [] r = "yes" -> Pending
          /\ pc' = IF r = "error" THEN "done" ELSE "deleteWs"
          /\ failed' = IF r = "error" THEN failed \cup {"confirm"} ELSE failed
    /\ UNCHANGED <<wsTree, localWs, treeJson, mode, groups, printed, pre, prompts>>

\* d.inBool.Bool(question, {"no", "yes"})
RunPromptConfirm ==
    /\ pc = "confirm"
    /\ log' = Append(log, "confirm")
    /\ \E r \in {"error", "no", "yes"} :
          /\ answer' = r
          /\ err' = CASE r = "error" -> ErrCollaborator
                      [] r = "no" -> Nil
                      [] r = "yes" -> Pending
          /\ pc' = IF r = "yes" THEN "deleteWs" ELSE "done"
          /\ failed' = IF r = "error" THEN failed \cup {"confirm"} ELSE failed
    /\ UNCHANGED <<wsTree, localWs, treeJson, mode, groups, printed, pre, prompts>>

\* prompt.Success("Formula successfully deleted!") and return nil
RunPromptSuccess ==
    /\ pc = "success"
    /\ log' = Append(log, "success")
    /\ printed' = TRUE
    /\ err' = Nil
    /\ pc' = "done"
    /\ UNCHANGED <<wsTree, localWs, treeJson, mode, groups, failed, pre, prompts, answer>>

(***************************************************************************)
(* runStdin.                                                               *)
(***************************************************************************)
\* stdin.ReadJson(cmd.InOrStdin(), &deleteStdin)
RunStdinReadJson ==
    /\ Idle
    /\ mode' = "stdin"
    /\ printed' = FALSE
    /\ log' = <<"readJson">>
    /\ \/ /\ err' = ErrCollaborator
          /\ pc' = "done"
          /\ failed' = {"readJson"}
          /\ groups' = <<>>
       \/ /\ err' = Pending
          /\ pc' = "deleteWs"
          /\ failed' = {}
          /\ groups' \in StdinGroups
    /\ UNCHANGED <<wsTree, localWs, treeJson, pre, prompts, answer>>

(***************************************************************************)
(* The steps both runners share.                                           *)
(***************************************************************************)
\* d.deleteFormula(wspace.Dir, groups, 0)
DeleteWorkspace ==
    /\ pc = "deleteWs"
    /\ log' = Append(log, "deleteWs")
    /\ \E fault \in Faults(wsTree) :
          LET r == deleteFormula(wsTree, Root, groups, 0, fault)
          IN  /\ wsTree' = r.fs
              /\ err' = IF r.err # Nil THEN r.err ELSE Pending
              /\ pc' = IF r.err # Nil THEN "done" ELSE "deleteLocal"
              /\ failed' = IF r.err # Nil THEN failed \cup {"deleteWs"} ELSE failed
    /\ UNCHANGED <<localWs, treeJson, mode, groups, printed, pre, prompts, answer>>

\* tree.json is a non-directory entry of the mirror root while it exists.
LocalWithIndex(t, index) ==
    IF index = Absent THEN t ELSE [t EXCEPT !.files = @ \cup {Root}]

\* Faulty variant: a batch run returns after the mirror deletion, without the index rewrite.
DeleteLocalBatchReturns ==
    /\ pc = "deleteLocal"
    /\ log' = Append(log, "deleteLocal")
    /\ \E fault \in Faults(localWs) :
          LET r == deleteFormula(LocalWithIndex(localWs, treeJson), Root, groups, 0, fault)
          IN  /\ localWs' = [r.fs EXCEPT !.files = @ \ {Root}]
              /\ treeJson' = IF Root \in r.fs.files THEN treeJson ELSE Absent
              /\ err' = IF r.err # Nil THEN r.err
                        ELSE IF mode = "stdin" THEN Nil ELSE Pending
              /\ pc' = IF r.err # Nil \/ mode = "stdin" THEN "done" ELSE "recriateTreeJson"
              /\ failed' = IF r.err # Nil THEN failed \cup {"deleteLocal"} ELSE failed
    /\ UNCHANGED <<wsTree, mode, groups, printed, pre, prompts, answer>>

\* Faulty variant: the error of the mirror deletion is dropped and the run goes on.
DeleteLocalIgnoresError ==
    /\ pc = "deleteLocal"
    /\ log' = Append(log, "deleteLocal")
    /\ \E fault \in Faults(localWs) :
          LET r == deleteFormula(LocalWithIndex(localWs, treeJson), Root, groups, 0, fault)
          IN  /\ localWs' = [r.fs EXCEPT !.files = @ \ {Root}]
              /\ treeJson' = IF Root \in r.fs.files THEN treeJson ELSE Absent
              /\ err' = Pending
              /\ pc' = "recriateTreeJson"
              /\ failed' = IF r.err # Nil THEN failed \cup {"deleteLocal"} ELSE failed
    /\ UNCHANGED <<wsTree, mode, groups, printed, pre, prompts, answer>>

\* d.deleteFormula(ritchieLocalWorkspace, groups, 0); tree.json lives in that root
DeleteLocal ==
    /\ pc = "deleteLocal"
    /\ log' = Append(log, "deleteLocal")
    /\ \E fault \in Faults(localWs) :
          LET r == deleteFormula(LocalWithIndex(localWs, treeJson), Root, groups, 0, fault)
          IN  /\ localWs' = [r.fs EXCEPT !.files = @ \ {Root}]
              /\ treeJson' = IF Root \in r.fs.files THEN treeJson ELSE Absent
              /\ err' = IF r.err # Nil THEN r.err ELSE Pending
              /\ pc' = IF r.err # Nil THEN "done" ELSE "recriateTreeJson"
              /\ failed' = IF r.err # Nil THEN failed \cup {"deleteLocal"} ELSE failed
    /\ UNCHANGED <<wsTree, mode, groups, printed, pre, prompts, answer>>

\* d.recriateTreeJson(ritchieLocalWorkspace)
RecriateTreeJson ==
    /\ pc = "recriateTreeJson"
    /\ \E genFails \in BOOLEAN, marshalFails \in BOOLEAN, writeFails \in BOOLEAN :
          LET r == recriateTreeJson(localWs, treeJson, genFails, marshalFails, writeFails)
          IN  /\ treeJson' = r.file
              /\ log' = log \o r.steps
              /\ failed' = failed \cup r.failed
              /\ err' = IF r.err # Nil THEN r.err
                        ELSE IF mode = "prompt" THEN Pending ELSE Nil
              /\ pc' = IF r.err = Nil /\ mode = "prompt" THEN "success" ELSE "done"
    /\ UNCHANGED <<wsTree, localWs, mode, groups, printed, pre, prompts, answer>>

Next ==
    \/ NewDeleteFormulaCmd
    \/ RunPromptList
    \/ RunPromptInput
    \/ RunPromptValidate
    \/ RunPromptAdd
    \/ RunPromptReadFormulas
    \/ RunPromptConfirm
    \/ RunPromptSuccess
    \/ RunStdinReadJson
    \/ DeleteWorkspace
    \/ DeleteLocal
    \/ RecriateTreeJson

Spec == Init /\ [][Next]_vars

(***************************************************************************)
(* The same program started on workspaces whose groups may hold the        *)
(* reserved docs directory, which readFormulas drops from every listing.   *)
(***************************************************************************)
WithDocs(D) == {D \cup {Append(p, docsDir) : p \in P} : P \in SUBSET D}

InitDocs ==
    /\ \E W0 \in DirSets(MaxDirs), L \in DirSets(MaxDirs) :
          \E W \in WithDocs(W0) :
             /\ Cardinality(W) + Cardinality(L) - 2 <= MaxDirs
             /\ wsTree = [dirs |-> W, files |-> {}]
             /\ localWs = [dirs |-> L, files |-> {}]
    /\ treeJson = MarshalIndent(Generate(localWs, FALSE).tree, FALSE).json
    /\ pc = "idle"
    /\ mode = "none"
    /\ groups = <<>>
    /\ err = Nil
    /\ printed = FALSE
    /\ log = <<>>
    /\ failed = {}
    /\ pre = [ws |-> wsTree, local |-> localWs, treeJson |-> treeJson]
    /\ prompts = <<>>
    /\ answer = NoAnswer

SpecResolver == InitDocs /\ [][Next]_vars

(***************************************************************************)
(* Vocabulary of the properties.                                           *)
(***************************************************************************)
Ran(step) == \E i \in DOMAIN log : log[i] = step

Count(step) == Cardinality({i \in DOMAIN log : log[i] = step})

\* A command path as the data model defines it: at least one segment, each a name.
ValidGroups == groups # <<>> /\ \A i \in DOMAIN groups : groups[i] \in Names

\* rootDir/segments[0]/.../segments[n-1]
Leaf == JoinAll(Root, groups)

\* rootDir/segments[0..k-1], the ancestor k levels below the root
Ancestor(k) == SubSeq(groups, 1, k)

Ancestors == {Ancestor(k) : k \in 1..(Len(groups) - 1)}

WsReturned == Ran("deleteWs")
WsOk == WsReturned /\ "deleteWs" \notin failed
LocalReturned == Ran("deleteLocal")
LocalOk == LocalReturned /\ "deleteLocal" \notin failed

Under(p, t) == {d \in t.dirs \cup t.files : IsPrefix(p, d)}

\* Sub-directories of p other than the next segment of the command path.
Siblings(t, p) == SubDirs(t, p) \ {Ancestor(Len(p) + 1)}

\* Every directory from p down to the leaf's parent holds no other sub-directory.
ChainOnly(t, p) ==
    \A j \in Len(p)..(Len(groups) - 1) : Siblings(t, Ancestor(j)) = {}

(***************************************************************************)
(* C1: for a non-empty path of non-empty names, deleteFormula(root,        *)
(* segments, 0) never removes the root, whether it succeeds or fails, and  *)
(* when it succeeds the leaf directory and everything beneath it is gone.  *)
(***************************************************************************)
RootKeptLeafGone(before, after, returned, ok) ==
    returned =>
        /\ Exists(before, Root) => Exists(after, Root)
        /\ ok => Under(Leaf, after) = {}

C1_RootKeptLeafGone ==
    ValidGroups =>
        /\ RootKeptLeafGone(pre.ws, wsTree, WsReturned, WsOk)
        /\ RootKeptLeafGone(pre.local, localWs, LocalReturned, LocalOk)

\* The whole chain below the root was removed and the root is all that is left.
C1_Witness ==
    /\ ValidGroups /\ Len(groups) > 1 /\ WsOk
    /\ Exists(pre.ws, Leaf)
    /\ wsTree.dirs = {Root}

(***************************************************************************)
(* C2: sibling preservation.  A directory that is neither on the path to   *)
(* the leaf nor inside the leaf is left as it was, and an ancestor that    *)
(* holds a sub-directory beside the path (a sibling) survives with its     *)
(* stray files.                                                            *)
(***************************************************************************)
OffPath(d) == ~IsPrefix(d, Leaf) /\ ~IsPrefix(Leaf, d)

SiblingsKept(before, after, returned) ==
    returned =>
        /\ \A d \in before.dirs :
              OffPath(d) => d \in after.dirs /\ (d \in after.files <=> d \in before.files)
        /\ \A p \in Ancestors :
              (Exists(before, p) /\ Siblings(before, p) # {}) =>
                  /\ p \in after.dirs
                  /\ p \in after.files <=> p \in before.files
                  /\ Siblings(after, p) = Siblings(before, p)

C2_SiblingsKept ==
    ValidGroups =>
        /\ SiblingsKept(pre.ws, wsTree, WsReturned)
        /\ SiblingsKept(pre.local, localWs, LocalReturned)

\* a/x was deleted beside a/y: a and a/y are still there.
C2_Witness ==
    /\ ValidGroups /\ Len(groups) > 1 /\ WsOk
    /\ Exists(pre.ws, Leaf) /\ ~Exists(wsTree, Leaf)
    /\ Siblings(pre.ws, Parent(Leaf)) # {}
    /\ Exists(wsTree, Parent(Leaf))

(***************************************************************************)
(* C3: ancestor chain pruning.  After a successful call an ancestor has    *)
(* been removed exactly when, before the call, every directory from it     *)
(* down to the leaf's parent held no sub-directory but the next segment.   *)
(***************************************************************************)
ChainPruned(before, after, ok) ==
    ok => \A p \in Ancestors :
              /\ Exists(before, p)
              /\ ~Exists(after, p) <=> ChainOnly(before, p)

C3_ChainPruned ==
    ValidGroups =>
        /\ ChainPruned(pre.ws, wsTree, WsOk)
        /\ ChainPruned(pre.local, localWs, LocalOk)

\* Only the chain a/b/c existed: c, b and a are gone and the root remains.
C3_Witness ==
    /\ ValidGroups /\ Len(groups) = MaxDepth /\ WsOk
    /\ pre.ws.dirs = {Root} \cup {Ancestor(k) : k \in 1..Len(groups)}
    /\ wsTree.dirs = {Root}

\* A deeper ancestor went while a shallower one stayed because of its sibling.
C3_WitnessPartial ==
    /\ ValidGroups /\ Len(groups) = MaxDepth /\ WsOk
    /\ Exists(pre.ws, Leaf)
    /\ ~Exists(wsTree, Parent(Leaf))
    /\ Exists(wsTree, Ancestor(1))

(***************************************************************************)
(* C4: files block nothing.  Whether an ancestor is pruned depends on its  *)
(* sub-directories only: an ancestor left without sub-directories goes     *)
(* together with its stray files, one that keeps a sub-directory stays,    *)
(* and the same tree without any stray file loses the same directories.    *)
(***************************************************************************)
DirsOnly(t) == [dirs |-> t.dirs, files |-> {}]

FilesBlockNothing(before, after, ok) ==
    ok =>
        /\ \A p \in Ancestors :
              /\ SubDirs(before, p) \cap after.dirs = {} => Under(p, after) = {}
              /\ SubDirs(before, p) \cap after.dirs # {} => Exists(after, p)
        /\ after.dirs = deleteFormula(DirsOnly(before), Root, groups, 0, NoFault).fs.dirs

C4_FilesBlockNothing ==
    ValidGroups =>
        /\ FilesBlockNothing(pre.ws, wsTree, WsOk)
        /\ FilesBlockNothing(pre.local, localWs, LocalOk)

\* An ancestor that held a stray file and no sibling was pruned with its file.
C4_Witness ==
    /\ ValidGroups /\ WsOk
    /\ \E p \in Ancestors : p \in pre.ws.files /\ ~Exists(wsTree, p)

(***************************************************************************)
(* C5: a second deleteFormula on a path the first one deleted returns a    *)
(* not-found error instead of succeeding, whatever the path length and     *)
(* whether or not the parent group survived the first run.                 *)
(***************************************************************************)
C5_SecondRunNotFound ==
    (ValidGroups /\ WsOk /\ Exists(pre.ws, Leaf)) =>
        deleteFormula(wsTree, Root, groups, 0, NoFault).err = ErrNotExist

(***************************************************************************)
(* C6: dual-tree consistency.  When a deletion reports success, both roots *)
(* were given the same path, neither holds it any more, and tree.json is   *)
(* the tree generated from what the mirror now holds, without that path.   *)
(***************************************************************************)
Returned == pc = "done"

Declined == Returned /\ err = Nil /\ mode = "prompt" /\ ~WsReturned

DeletionSucceeded == Returned /\ err = Nil /\ WsReturned

IndexOf(t) == MarshalIndent(Generate(t, FALSE).tree, FALSE).json

C6_DualTreeConsistent ==
    DeletionSucceeded =>
        /\ WsOk /\ LocalOk
        /\ Under(Leaf, wsTree) = {}
        /\ Under(Leaf, localWs) = {}
        /\ treeJson = IndexOf(localWs)
        /\ Leaf \notin treeJson.commands

(***************************************************************************)
(* C7: when the mirror does not hold the path, the mirror deletion fails,  *)
(* the failure is returned and the index is not regenerated, for a path of *)
(* any length.                                                             *)
(***************************************************************************)
C7_MissingInMirrorFails ==
    (ValidGroups /\ LocalReturned /\ ~Exists(pre.local, Leaf)) =>
        /\ ~LocalOk
        /\ ~Ran("generate")
        /\ treeJson = pre.treeJson
        /\ Returned /\ err # Nil

(***************************************************************************)
(* C8: index regeneration ordering.  In one run the index is generated and *)
(* written at most once, directly after the workspace deletion and the     *)
(* mirror deletion both succeeded; nothing is removed once it is written;  *)
(* a successful deletion, batch or interactive, regenerates it once.       *)
(***************************************************************************)
Follows(first, second) ==
    \A j \in DOMAIN log : log[j] = second => j > 1 /\ log[j - 1] = first

NoneAfter(step, later) ==
    \A i, j \in DOMAIN log : (log[i] = step /\ log[j] \in later) => j < i

C8_IndexOnceAfterDeletions ==
    /\ Count("generate") <= 1 /\ Count("write") <= 1
    /\ Follows("deleteWs", "deleteLocal")
    /\ Follows("deleteLocal", "generate")
    /\ Follows("marshal", "write")
    /\ Ran("generate") => WsOk /\ LocalOk
    /\ NoneAfter("generate", {"deleteWs", "deleteLocal"})
    /\ Ran("write") =>
          /\ wsTree = deleteFormula(pre.ws, Root, groups, 0, NoFault).fs
          /\ localWs = deleteFormula(pre.local, Root, groups, 0, NoFault).fs
    /\ ~Ran("write") => treeJson = pre.treeJson \/ (~ValidGroups /\ treeJson = Absent)
    /\ DeletionSucceeded => Count("generate") = 1 /\ Count("write") = 1 /\ "write" \notin failed

\* A batch run that removed a formula from both roots has rewritten the index.
C8_Witness ==
    /\ DeletionSucceeded /\ mode = "stdin" /\ ValidGroups
    /\ Exists(pre.ws, Leaf) /\ Exists(pre.local, Leaf)
    /\ Count("write") = 1
    /\ treeJson # pre.treeJson

(***************************************************************************)
(* C9 as stated: a run returns success only if the workspace deletion, the *)
(* mirror deletion and the index rewrite all succeeded, in that order.     *)
(***************************************************************************)
Calls == {"list", "input", "validate", "add", "readFormulas", "confirm", "readJson",
          "deleteWs", "deleteLocal", "generate", "write"}

AllThreeSucceeded ==
    /\ Len(log) >= 5
    /\ SubSeq(log, Len(log) - (IF printed THEN 5 ELSE 4), Len(log) - (IF printed THEN 1 ELSE 0))
           = <<"deleteWs", "deleteLocal", "generate", "marshal", "write">>
    /\ failed \cap Calls = {}

C9_WitnessFailure ==
    /\ Returned /\ failed = {"deleteLocal"}
    /\ Exists(pre.ws, Leaf) /\ ~Exists(wsTree, Leaf)

(***************************************************************************)
(* C10: no error is swallowed.  A run in which any step failed returns an  *)
(* error, prints nothing and writes no index built from the failed step.   *)
(***************************************************************************)
C10_NoErrorSwallowed ==
    failed # {} =>
        /\ Returned /\ err \notin {Nil, Pending}
        /\ ~printed
        /\ ~("marshal" \in failed /\ Ran("write") /\ "write" \notin failed)

(***************************************************************************)
(* C11: input validation before mutation.  Through both runners a request  *)
(* with an empty segment list or an empty-string segment is rejected       *)
(* before anything is removed, so deleteFormula is only ever called with a *)
(* command path of at least one segment, all segments non-empty.           *)
(***************************************************************************)
C11_ValidatedBeforeMutation ==
    /\ (WsReturned \/ LocalReturned) => ValidGroups
    /\ (mode = "stdin" /\ "readJson" \notin failed /\ ~ValidGroups) =>
          /\ wsTree = pre.ws /\ localWs = pre.local /\ treeJson = pre.treeJson
          /\ Returned => err # Nil

(***************************************************************************)
(* C12: no rollback.  A call that fails while pruning leaves the leaf and  *)
(* the deeper ancestors it had removed removed; a call that fails in the   *)
(* leaf removal touches nothing else; when the mirror deletion fails the   *)
(* workspace keeps the result of its deletion and the index is not         *)
(* rewritten.                                                              *)
(***************************************************************************)
\* The call stopped at ancestor k: the levels below it are as a completed
\* call leaves them, the levels from k up are still there.
StoppedAt(before, after, k) ==
    /\ Under(Leaf, after) = {}
    /\ \A j \in 1..k : Exists(after, Ancestor(j))
    /\ \A j \in (k + 1)..(Len(groups) - 1) :
          ~Exists(after, Ancestor(j)) <=> ChainOnly(before, Ancestor(j))

\* The call stopped in the removal of the leaf.
StoppedAtLeaf(before, after) ==
    \E f \in Faults(before) :
        LET r == RemoveAll(before, Leaf, f)
        IN  r.err # Nil /\ after = r.fs

NoRollback(before, after, returned, ok) ==
    (returned /\ ~ok /\ Exists(before, Leaf)) =>
        \/ StoppedAtLeaf(before, after)
        \/ \E k \in 1..(Len(groups) - 1) : StoppedAt(before, after, k)

C12_NoRollback ==
    /\ ValidGroups =>
          /\ NoRollback(pre.ws, wsTree, WsReturned, WsOk)
          /\ NoRollback(pre.local, localWs, LocalReturned, LocalOk)
    /\ (LocalReturned /\ ~LocalOk) =>
          /\ wsTree = deleteFormula(pre.ws, Root, groups, 0, NoFault).fs
          /\ ~Ran("generate") /\ ~Ran("write")
          /\ ValidGroups => treeJson = pre.treeJson

\* The prune of the leaf's parent failed in the mirror after the leaf had gone,
\* and the workspace had lost the formula already.
C12_Witness ==
    /\ ValidGroups /\ Len(groups) > 1
    /\ LocalReturned /\ ~LocalOk
    /\ Exists(pre.ws, Leaf) /\ ~Exists(wsTree, Leaf)
    /\ Exists(pre.local, Leaf) /\ ~Exists(localWs, Leaf)
    /\ Exists(localWs, Parent(Leaf))

\* In the workspace the prune of the top group failed after the leaf and its
\* parent had gone.
C12_WitnessDeep ==
    /\ ValidGroups /\ Len(groups) = MaxDepth
    /\ WsReturned /\ ~WsOk
    /\ Exists(pre.ws, Leaf) /\ ~Exists(wsTree, Parent(Leaf))
    /\ Exists(wsTree, Ancestor(1))

(***************************************************************************)
(* C13: namespace synchronisation.  When the workspace and the mirror hold *)
(* the same directories before a run (their files may differ), they hold   *)
(* the same directories after both deletions succeeded, hence after every  *)
(* successful run: the same leaf and the same ancestors went in both.      *)
(***************************************************************************)
C13_NamespacesInSync ==
    (WsOk /\ LocalOk /\ pre.ws.dirs = pre.local.dirs) =>
        /\ wsTree.dirs = localWs.dirs
        /\ pre.ws.dirs \ wsTree.dirs = pre.local.dirs \ localWs.dirs

\* Same directories, different files: the leaf and its parent went in both.
C13_Witness ==
    /\ DeletionSucceeded /\ ValidGroups /\ Len(groups) > 1
    /\ pre.ws.dirs = pre.local.dirs
    /\ pre.ws.files # pre.local.files
    /\ Exists(pre.ws, Leaf)
    /\ ~Exists(wsTree, Parent(Leaf)) /\ ~Exists(localWs, Parent(Leaf))

(***************************************************************************)
(* C14: entry-point equivalence.  From the first deletion on, a batch run  *)
(* and a confirmed interactive run on the same trees with the same command *)
(* path are bound by one relation that does not mention the runner: the    *)
(* same calls in the same order, the same trees, index and returned error. *)
(***************************************************************************)
\* The calls of the run from the workspace deletion on, the message aside.
DeletionSteps ==
    LET i == CHOOSE j \in DOMAIN log : log[j] = "deleteWs"
    IN  SubSeq(log, i, Len(log) - (IF printed THEN 1 ELSE 0))

MirrorDeleted ==
    \E f \in Faults(pre.local) :
        LET b == deleteFormula(LocalWithIndex(pre.local, pre.treeJson), Root, groups, 0, f)
            index == IF Root \in b.fs.files THEN pre.treeJson ELSE Absent
        IN  /\ localWs = [b.fs EXCEPT !.files = @ \ {Root}]
            /\ IF b.err # Nil
               THEN /\ err = b.err
                    /\ treeJson = index
                    /\ DeletionSteps = <<"deleteWs", "deleteLocal">>
               ELSE \E genFails \in BOOLEAN, marshalFails \in BOOLEAN, writeFails \in BOOLEAN :
                       LET r == recriateTreeJson(localWs, index, genFails, marshalFails, writeFails)
                       IN  /\ treeJson = r.file
                           /\ err = r.err
                           /\ DeletionSteps = <<"deleteWs", "deleteLocal">> \o r.steps

C14_SameFromFirstDeletion ==
    (Returned /\ WsReturned) =>
        \E f \in Faults(pre.ws) :
            LET a == deleteFormula(pre.ws, Root, groups, 0, f)
            IN  /\ wsTree = a.fs
                /\ IF a.err # Nil
                   THEN /\ err = a.err
                        /\ localWs = pre.local
                        /\ treeJson = pre.treeJson
                        /\ DeletionSteps = <<"deleteWs">>
                   ELSE MirrorDeleted

\* An interactive run, confirmed, removed a formula that a batch request names too.
C14_Witness ==
    /\ Returned /\ mode = "prompt" /\ DeletionSucceeded
    /\ groups \in StdinGroups
    /\ Exists(pre.ws, Leaf) /\ Exists(pre.local, Leaf)
    /\ ~Exists(wsTree, Leaf) /\ ~Exists(localWs, Leaf)

\* A batch run ended with the error of the mirror deletion.
C14_WitnessBatch ==
    /\ Returned /\ mode = "stdin" /\ LocalReturned /\ ~LocalOk
    /\ Exists(pre.ws, Leaf)

(***************************************************************************)
(* C15: path resolver.  On every workspace tree and every sequence of      *)
(* selector answers readFormulas returns after at most one prompt per      *)
(* directory of the tree; every prompt offers the sub-directories of the   *)
(* directory reached so far without the reserved docs entry; on success    *)
(* the segments are the selected names in order, one per prompt, and the   *)
(* directory they lead to has no sub-directory left to descend into; a     *)
(* listing error or a selector error comes back as it was raised, with no  *)
(* segments.                                                               *)
(***************************************************************************)
Resolved == mode = "prompt" /\ Ran("readFormulas")

ResolvedOk == Resolved /\ "readFormulas" \notin failed

\* The name selected at each prompt, in the order of the prompts.
Selected == [i \in DOMAIN prompts |-> prompts[i].selected]

\* What the resolver may offer in directory p.
Offerable(t, p) == {d[Len(d)] : d \in SubDirs(t, p)} \ {docsDir}

FormulaLeaf(t, p) == Exists(t, p) /\ Offerable(t, p) = {}

C15_ResolverReachesLeaf ==
    Resolved =>
        /\ Len(prompts) <= Cardinality(pre.ws.dirs)
        /\ \A i \in DOMAIN prompts :
              /\ docsDir \notin prompts[i].options
              /\ prompts[i].options = Offerable(pre.ws, SubSeq(Selected, 1, i - 1))
              /\ prompts[i].options # {}
        /\ ResolvedOk =>
              /\ groups = Selected
              /\ Len(prompts) = Len(groups)
              /\ \A i \in DOMAIN groups : groups[i] \in prompts[i].options
              /\ FormulaLeaf(pre.ws, Leaf)
        /\ ~ResolvedOk =>
              /\ groups = <<>>
              /\ err \in {ErrNotExist, ErrPermission, ErrCollaborator}
              /\ err = ErrCollaborator <=>
                    (prompts # <<>> /\ prompts[Len(prompts)].selected = NoSelection)

\* Two prompts led past a docs directory to a leaf that holds only docs.
C15_Witness ==
    /\ ResolvedOk /\ Len(groups) = 2
    /\ Append(Root, docsDir) \in pre.ws.dirs
    /\ Append(Leaf, docsDir) \in pre.ws.dirs

\* The selector failed at the second prompt: its error, no segments.
C15_WitnessSelectorError ==
    /\ Resolved /\ err = ErrCollaborator /\ Len(prompts) = 2 /\ groups = <<>>

\* The listing of a sub-directory failed after one selection.
C15_WitnessListError ==
    /\ Resolved /\ err = ErrPermission /\ Len(prompts) = 1 /\ groups = <<>>

(***************************************************************************)
(* C16: not found.  In interactive mode the resolver yields no segments    *)
(* without an error exactly when the workspace root has no sub-directory   *)
(* other than docs; the command then returns ErrCouldNotFindFormula with   *)
(* no confirmation asked, nothing removed from either root and the index   *)
(* not rewritten.  A resolution that descended a level never yields it.    *)
(***************************************************************************)
NothingChanged ==
    /\ wsTree = pre.ws
    /\ localWs = pre.local
    /\ treeJson = pre.treeJson

C16_NotFoundIffRootLeaf ==
    Resolved =>
        /\ (ResolvedOk /\ groups = <<>>) => FormulaLeaf(pre.ws, Root)
        /\ FormulaLeaf(pre.ws, Root) =>
              /\ prompts = <<>>
              /\ ResolvedOk => groups = <<>>
        /\ (ResolvedOk /\ groups = <<>>) =>
              /\ Returned /\ err = ErrCouldNotFindFormula
              /\ ~Ran("confirm") /\ ~Ran("deleteWs") /\ ~Ran("deleteLocal")
              /\ ~Ran("write")
              /\ ~printed
              /\ NothingChanged
        /\ err = ErrCouldNotFindFormula => prompts = <<>> /\ groups = <<>>
        /\ prompts # <<>> => err # ErrCouldNotFindFormula

\* A workspace root that holds only the docs directory is reported as not found.
C16_Witness ==
    /\ Resolved /\ Returned /\ err = ErrCouldNotFindFormula
    /\ pre.ws.dirs = {Root, Append(Root, docsDir)}
    /\ pre.local.dirs # {Root}

\* An empty workspace root.
C16_WitnessEmpty ==
    /\ Resolved /\ Returned /\ err = ErrCouldNotFindFormula
    /\ pre.ws.dirs = {Root}

(***************************************************************************)
(* C17: confirmation gate.  In interactive mode nothing is removed from    *)
(* either root and the index is not rewritten unless the confirmation      *)
(* prompt has returned yes; on no the command returns success with both    *)
(* trees and the index as they were and prints nothing; when the prompt    *)
(* fails its error is returned, again with nothing changed.                *)
(***************************************************************************)
C17_ConfirmationGate ==
    mode = "prompt" =>
        /\ answer # "yes" =>
              /\ NothingChanged
              /\ ~WsReturned /\ ~LocalReturned /\ ~Ran("write")
              /\ ~printed
        /\ (answer = "no") => (Returned /\ err = Nil)
        /\ (answer = "error") => (Returned /\ err = ErrCollaborator)
        /\ (answer # NoAnswer) <=> Ran("confirm")
        /\ WsReturned => Follows("confirm", "deleteWs")

\* The user declined: a formula was resolved and is still there.
C17_Witness ==
    /\ mode = "prompt" /\ answer = "no" /\ Returned
    /\ groups # <<>> /\ Exists(wsTree, Leaf)
    /\ Exists(localWs, Leaf) /\ treeJson # Absent

\* The confirmation prompt failed.
C17_WitnessError ==
    /\ mode = "prompt" /\ answer = "error" /\ Returned /\ Exists(wsTree, Leaf)

\* The user agreed and the formula is gone.
C17_WitnessYes ==
    /\ mode = "prompt" /\ answer = "yes" /\ Returned /\ err = Nil
    /\ Exists(pre.ws, Leaf) /\ ~Exists(wsTree, Leaf)

(***************************************************************************)
(* C18: no collateral removal.  When the leaf directory of the command     *)
(* path does not exist in a root at the time deleteFormula is called on    *)
(* it, the call removes no directory and no file from that root: the       *)
(* ancestors that exist are left as they were.                             *)
(***************************************************************************)
NoCollateral(before, after, returned) ==
    (returned /\ ~Exists(before, Leaf)) => after = before

C18_NoCollateralRemoval ==
    ValidGroups =>
        /\ NoCollateral(pre.ws, wsTree, WsReturned)
        /\ NoCollateral(pre.local, localWs, LocalReturned)

====
